---- MODULE Spec2Model ----
(***************************************************************************)
(* onshape-exporter: the configuration parameter resolver                  *)
(* (resolve_configuration_parameters) and the export orchestration of      *)
(* main / export_configuration under a ThreadPoolExecutor.                 *)
(*                                                                         *)
(* Python strings whose characters matter (quantity values, part, spec and *)
(* format names, file names) are sequences of one-character strings.       *)
(***************************************************************************)
EXTENDS Integers, Sequences, FiniteSets, TLC

VARIABLES
    \* ---- the resolver applied on its own (SpecResolve) ----
    rconfig,    \* config: the ordered name -> raw value mapping
    rschema,    \* config_schema
    rdone,      \* whether resolve_configuration_parameters has been called
    rresult,    \* what the call gave: a list, or the exception raised
    \* ---- a run of main: the input of the run and its environment ----
    formats,    \* config_data["formats"]
    parts,      \* config_data["parts"]
    specs,      \* configurationsToExport
    wvm,        \* ctx.ids["wvm"]: "w" workspace, "v" version, "m" microversion
    studio,     \* the parts of the Part Studio, as the service lists them
    svc,        \* how the service answers the requests of the export tasks
    \* ---- main ----
    mainpc,     \* where main is
    mainErr,    \* where an exception left main, "none" if none did
    suffix,     \* the file name suffix
    vlookup,    \* what get_version_name found
    schema,     \* config_schema
    mainReq,    \* the requests main made itself, by kind
    loop,       \* the indices of the three nested submit loops
    \* ---- the pool and the remote service ----
    tasks,      \* futures: the submitted calls of export_configuration
    job,        \* the translation job of each task, at the service
    files,      \* the files written
    errlog      \* what log_error wrote

rvars == <<rconfig, rschema, rdone, rresult>>

envvars == <<formats, parts, specs, wvm, studio, svc>>

mainvars == <<mainpc, mainErr, suffix, vlookup, schema, mainReq, loop>>

poolvars == <<tasks, job, files, errlog>>

vars == <<rvars, envvars, mainvars, poolvars>>

(***************************************************************************)
(* Strings                                                                 *)
(***************************************************************************)
EndsWith(s, u) ==
    /\ Len(s) >= Len(u)
    /\ SubSeq(s, Len(s) - Len(u) + 1, Len(s)) = u

\* str.split()[0]: the first maximal run of non-blank characters
RECURSIVE SkipSpaces(_)
SkipSpaces(s) ==
    IF s = <<>> THEN <<>>
    ELSE IF Head(s) = " " THEN SkipSpaces(Tail(s)) ELSE s

RECURSIVE TakeToken(_)
TakeToken(s) ==
    IF s = <<>> THEN <<>>
    ELSE IF Head(s) = " " THEN <<>> ELSE <<Head(s)>> \o TakeToken(Tail(s))

FirstToken(s) == TakeToken(SkipSpaces(s))

Digits == <<"0", "1", "2", "3", "4", "5", "6", "7", "8", "9">>

IsDigit(c) == \E i \in 1..Len(Digits) : Digits[i] = c

DigitVal(c) == (CHOOSE i \in 1..Len(Digits) : Digits[i] = c) - 1

RECURSIVE DigitsVal(_, _)
DigitsVal(s, acc) ==
    IF s = <<>> THEN acc ELSE DigitsVal(Tail(s), acc * 10 + DigitVal(Head(s)))

\* float(token), for the literals the model draws: an optional sign and
\* decimal digits.  Anything else raises ValueError (ok = FALSE).
ParseFloat(tok) ==
    LET neg  == tok # <<>> /\ Head(tok) = "-"
        body == IF tok # <<>> /\ Head(tok) \in {"-", "+"} THEN Tail(tok) ELSE tok
    IN  IF body # <<>> /\ \A i \in 1..Len(body) : IsDigit(body[i])
        THEN [ok |-> TRUE,
              n  |-> IF neg THEN 0 - DigitsVal(body, 0) ELSE DigitsVal(body, 0)]
        ELSE [ok |-> FALSE, n |-> 0]

RECURSIVE NatToStr(_)
NatToStr(n) ==
    IF n < 10 THEN <<Digits[n + 1]>>
    ELSE NatToStr(n \div 10) \o <<Digits[(n % 10) + 1]>>

\* f"{n}" of an int
IntToStr(n) == IF n < 0 THEN <<"-">> \o NatToStr(0 - n) ELSE NatToStr(n)

UpperLetters == <<"A", "B", "C", "D", "E", "F", "G", "H", "I", "J", "K", "L", "M",
                  "N", "O", "P", "Q", "R", "S", "T", "U", "V", "W", "X", "Y", "Z">>

LowerLetters == <<"a", "b", "c", "d", "e", "f", "g", "h", "i", "j", "k", "l", "m",
                  "n", "o", "p", "q", "r", "s", "t", "u", "v", "w", "x", "y", "z">>

LowerChar(c) ==
    IF \E i \in 1..Len(UpperLetters) : UpperLetters[i] = c
    THEN LowerLetters[CHOOSE i \in 1..Len(UpperLetters) : UpperLetters[i] = c]
    ELSE c

\* str.lower()
Lower(s) == [i \in 1..Len(s) |-> LowerChar(s[i])]

(***************************************************************************)
(* Raw and resolved values.  ty is the Python type of the value: "int",    *)
(* "str", "bool", "none" (YAML null) or "list"; n, s and b hold it.        *)
(***************************************************************************)
IntV(k)  == [ty |-> "int",  n |-> k, s |-> <<>>, b |-> FALSE]
StrV(cs) == [ty |-> "str",  n |-> 0, s |-> cs,   b |-> FALSE]
BoolV(x) == [ty |-> "bool", n |-> 0, s |-> <<>>, b |-> x]
NoneV    == [ty |-> "none", n |-> 0, s |-> <<>>, b |-> FALSE]
ListV    == [ty |-> "list", n |-> 0, s |-> <<>>, b |-> FALSE]

\* f"{conf_value}" of a number; bool is a subclass of int and prints its name
PyFormat(v) ==
    IF v.ty = "bool"
    THEN (IF v.b THEN <<"T", "r", "u", "e">> ELSE <<"F", "a", "l", "s", "e">>)
    ELSE IntToStr(v.n)

\* the value of a number in a comparison (True is 1, False is 0)
NumericOf(v) == IF v.ty = "bool" THEN (IF v.b THEN 1 ELSE 0) ELSE v.n

\* A bound of a quantity's rangeAndDefault: absent (None) or a number
NoBound   == [has |-> FALSE, n |-> 0]
Bound(k)  == [has |-> TRUE,  n |-> k]

(***************************************************************************)
(* resolve_configuration_parameters                                        *)
(***************************************************************************)
SupportedUnits ==
    << <<" ", "m", "m">>, <<"c", "m">>, <<"i", "n">>, <<"m">>, <<"f", "t">> >>

HasSupportedUnit(s) ==
    \E i \in 1..Len(SupportedUnits) : EndsWith(s, SupportedUnits[i])

Raised(exc, kind) ==
    [ok |-> FALSE, exc |-> exc, kind |-> kind,
     param |-> [parameterId |-> "", parameterValue |-> NoneV]]

Resolved(id, v) ==
    [ok |-> TRUE, exc |-> "none", kind |-> "none",
     param |-> [parameterId |-> id, parameterValue |-> v]]

\* an enum lookup that ignores the case of the display name
ResolveEnumAnyCase(def, value) ==
    LET hits == {i \in 1..Len(def.options) :
                    Lower(def.options[i].optionName) = Lower(value.s)}
    IN  IF value.ty # "str" \/ hits = {}
        THEN Raised("ValueError", "InvalidEnumValue")
        ELSE Resolved(def.parameterId,
                      StrV(def.options[CHOOSE i \in hits : \A j \in hits : j <= i].option))

\* valid_options[conf_value]: a dict comprehension keeps the last of equal keys
OptionOf(options, cs) ==
    LET hits == {i \in 1..Len(options) : options[i].optionName = cs}
    IN  options[CHOOSE i \in hits : \A j \in hits : j <= i].option

ResolveEnum(def, value) ==
    IF value.ty = "list" THEN Raised("TypeError", "Unhashable")
    ELSE IF value.ty # "str"
            \/ ~\E i \in 1..Len(def.options) : def.options[i].optionName = value.s
    THEN Raised("ValueError", "InvalidEnumValue")
    ELSE Resolved(def.parameterId, StrV(OptionOf(def.options, value.s)))

\* a range whose bounds are themselves out of range
RangeCheckExclusive(def, numeric, okResult) ==
    IF def.minValue.has /\ numeric <= def.minValue.n
    THEN Raised("ValueError", "BelowMinimum")
    ELSE IF def.maxValue.has /\ numeric >= def.maxValue.n
    THEN Raised("ValueError", "AboveMaximum")
    ELSE okResult

\* if min_val is not None and numeric_value < float(min_val): raise ...
\* if max_val is not None and numeric_value > float(max_val): raise ...
RangeCheck(def, numeric, okResult) ==
    IF def.minValue.has /\ numeric < def.minValue.n
    THEN Raised("ValueError", "BelowMinimum")
    ELSE IF def.maxValue.has /\ numeric > def.maxValue.n
    THEN Raised("ValueError", "AboveMaximum")
    ELSE okResult

ResolveQuantity(def, value) ==
    LET default_unit == IF def.units # <<>> THEN <<" ">> \o def.units ELSE <<>>
    IN  IF value.ty = "str"
        THEN IF ~HasSupportedUnit(value.s)
             THEN Raised("ValueError", "UnitMissing")
             ELSE LET num == ParseFloat(FirstToken(value.s))
                  IN  IF ~num.ok
                      THEN Raised("ValueError", "NumericParseError")
                      ELSE RangeCheck(def, num.n, Resolved(def.parameterId, value))
        ELSE IF value.ty \in {"int", "bool"}
        THEN RangeCheck(def, NumericOf(value),
                        Resolved(def.parameterId,
                                 StrV(PyFormat(value) \o default_unit)))
        ELSE Raised("ValueError", "TypeMismatch")

\* a boolean that takes 0 and 1 for false and true
ResolveBooleanTruthy(def, value) ==
    IF value.ty = "bool" THEN Resolved(def.parameterId, value)
    ELSE IF value.ty = "int" /\ value.n \in {0, 1}
    THEN Resolved(def.parameterId, BoolV(value.n = 1))
    ELSE Raised("ValueError", "TypeMismatch")

ResolveBoolean(def, value) ==
    IF value.ty # "bool"
    THEN Raised("ValueError", "TypeMismatch")
    ELSE Resolved(def.parameterId, value)

\* one iteration of the loop over config.items()
ResolveParam(name, value, config_schema) ==
    IF name \notin DOMAIN config_schema
    THEN Raised("ValueError", "UnknownParameter")
    ELSE LET def == config_schema[name]
         IN  CASE def.typeName = "BTMConfigurationParameterEnum" ->
                    ResolveEnum(def, value)
               [] def.typeName = "BTMConfigurationParameterQuantity" ->
                    ResolveQuantity(def, value)
               [] def.typeName = "BTMConfigurationParameterBoolean" ->
                    ResolveBoolean(def, value)
               [] OTHER -> Raised("ValueError", "UnsupportedParameterType")

\* what the call gives: the list it returns, or the exception it raises
Returned(params) == [ok |-> TRUE, exc |-> "none", kind |-> "none", params |-> params]
Threw(exc, kind) == [ok |-> FALSE, exc |-> exc, kind |-> kind, params |-> <<>>]

\* a resolver that gives up at the first bad key and returns what it has
RECURSIVE ResolveLoopPartial(_, _, _, _)
ResolveLoopPartial(config, config_schema, i, resolved_params) ==
    IF i > Len(config) THEN Returned(resolved_params)
    ELSE LET r == ResolveParam(config[i].name, config[i].value, config_schema)
         IN  IF ~r.ok THEN Returned(resolved_params)
             ELSE ResolveLoopPartial(config, config_schema, i + 1,
                                     Append(resolved_params, r.param))

RECURSIVE ResolveLoop(_, _, _, _)
ResolveLoop(config, config_schema, i, resolved_params) ==
    IF i > Len(config) THEN Returned(resolved_params)
    ELSE LET r == ResolveParam(config[i].name, config[i].value, config_schema)
         IN  IF ~r.ok THEN Threw(r.exc, r.kind)
             ELSE ResolveLoop(config, config_schema, i + 1,
                              Append(resolved_params, r.param))

ResolvePartial(config, config_schema) == ResolveLoopPartial(config, config_schema, 1, <<>>)

resolve_configuration_parameters(config, config_schema) ==
    ResolveLoop(config, config_schema, 1, <<>>)

(***************************************************************************)
(* Bounds of the model                                                     *)
(***************************************************************************)
\* the longest config the resolver is applied to on its own
MaxConfigLen == 2

\* the largest batch run against a service that may fail any request
MaxFlakyTasks == 2

\* the largest batch run against a service that answers every request
MaxTasks == 4

\* the largest batch whose tasks are checked for progress
MaxLiveTasks == 2

(***************************************************************************)
(* Schemas, as get_element_configuration builds them: UI name -> definition*)
(***************************************************************************)
EnumDef(id, options) ==
    [typeName |-> "BTMConfigurationParameterEnum", parameterId |-> id,
     options |-> options, minValue |-> NoBound, maxValue |-> NoBound,
     units |-> <<>>]

QuantityDef(id, lo, hi, units) ==
    [typeName |-> "BTMConfigurationParameterQuantity", parameterId |-> id,
     options |-> <<>>, minValue |-> lo, maxValue |-> hi, units |-> units]

BooleanDef(id) ==
    [typeName |-> "BTMConfigurationParameterBoolean", parameterId |-> id,
     options |-> <<>>, minValue |-> NoBound, maxValue |-> NoBound,
     units |-> <<>>]

StringDef(id) ==
    [typeName |-> "BTMConfigurationParameterString", parameterId |-> id,
     options |-> <<>>, minValue |-> NoBound, maxValue |-> NoBound,
     units |-> <<>>]

ColorOptions ==
    << [optionName |-> <<"R", "e", "d">>, option |-> <<"o", "1">>],
       [optionName |-> <<"B", "l", "u", "e">>, option |-> <<"o", "2">>],
       [optionName |-> <<"R", "e", "d">>, option |-> <<"o", "3">>] >>

DocSchema ==
    ("Color" :> EnumDef("idColor", ColorOptions))
    @@ ("Bin height" :> QuantityDef("idHeight", Bound(5), Bound(50), <<"m", "m">>))
    @@ ("scoop" :> BooleanDef("idScoop"))
    @@ ("label" :> StringDef("idLabel"))

\* the same document with an unbounded, unitless height and no colour
LooseSchema ==
    ("Bin height" :> QuantityDef("idH", NoBound, NoBound, <<>>))
    @@ ("scoop" :> BooleanDef("idS"))

\* a height with a minimum only, in centimetres
FloorSchema ==
    ("Bin height" :> QuantityDef("idH", Bound(5), NoBound, <<"c", "m">>))
    @@ ("scoop" :> BooleanDef("idS"))

\* a height with a maximum only
CeilingSchema ==
    ("Bin height" :> QuantityDef("idH", NoBound, Bound(50), <<"m", "m">>))
    @@ ("Color" :> EnumDef("idC", ColorOptions))

SchemaPool == {DocSchema, LooseSchema, FloorSchema, CeilingSchema}

Entry(name, value) == [name |-> name, value |-> value]

EntryPool ==
    {Entry("Color", v) : v \in {StrV(<<"R", "e", "d">>), StrV(<<"r", "e", "d">>),
                                StrV(<<"B", "l", "u", "e">>), StrV(<<"o", "2">>),
                                IntV(1), BoolV(TRUE), NoneV, ListV}}
    \cup {Entry("Bin height", v) :
            v \in {IntV(15), IntV(5), IntV(50), IntV(4), IntV(51),
                   StrV(<<"1", "5", " ", "m", "m">>), StrV(<<"6", "0", " ", "m", "m">>),
                   StrV(<<"1", "5", "m", "m">>), StrV(<<"2", " ", "i", "n">>),
                   StrV(<<"1", "5">>), StrV(<<"x", " ", "m", "m">>),
                   StrV(<<"5", " ", "m", "m">>), StrV(<<"5", "0", " ", "m", "m">>),
                   StrV(<<"4", " ", "m", "m">>), StrV(<<"5", "0", "c", "m">>),
                   BoolV(TRUE), NoneV, ListV}}
    \cup {Entry("scoop", v) :
            v \in {BoolV(TRUE), BoolV(FALSE), IntV(1), IntV(0),
                   StrV(<<"t", "r", "u", "e">>), NoneV, ListV}}
    \cup {Entry("ghost", IntV(1)), Entry("label", StrV(<<"x">>))}

\* a Python dict: every key once, in insertion order
IsDict(c) == \A i, j \in 1..Len(c) : c[i].name = c[j].name => i = j

RECURSIVE ConfigsOfLen(_)
ConfigsOfLen(k) ==
    IF k = 0 THEN {<<>>}
    ELSE UNION {{Append(c, e) : e \in {x \in EntryPool : IsDict(Append(c, x))}} :
                   c \in ConfigsOfLen(k - 1)}

\* the configs of at most n keys
ConfigPool(n) == UNION {ConfigsOfLen(k) : k \in 0..n}

NotCalled == Threw("none", "notcalled")

(***************************************************************************)
(* The input of a run: formats, parts, configurationsToExport              *)
(***************************************************************************)
STEP == <<"S", "T", "E", "P">>

STL == <<"S", "T", "L">>

PartA == <<"a">>

PartAB == <<"a", "-", "b">>

ExportSpec(name, config) == [name |-> name, config |-> config]

SpecC ==
    ExportSpec(<<"c">>, <<Entry("Bin height", IntV(15)), Entry("scoop", BoolV(TRUE))>>)

SpecBC == ExportSpec(<<"b", "-", "c">>, <<Entry("Color", StrV(<<"R", "e", "d">>))>>)

SpecD == ExportSpec(<<"d">>, <<Entry("scoop", BoolV(FALSE))>>)

\* a height above the maximum: ValueError
SpecHigh ==
    ExportSpec(<<"h">>, <<Entry("Bin height", StrV(<<"6", "0", " ", "m", "m">>))>>)

\* a list as the value of an enum: TypeError (unhashable)
SpecOdd == ExportSpec(<<"o">>, <<Entry("Color", ListV)>>)

FormatLists == {<<STEP>>, <<STEP, STL>>}

PartLists == {<<PartA>>, <<PartA, PartAB>>}

SpecLists ==
    {<<>>, <<SpecC>>, <<SpecBC, SpecC>>, <<SpecC, SpecHigh>>, <<SpecOdd>>,
     <<SpecBC, SpecC, SpecD>>}

(***************************************************************************)
(* The remote service                                                      *)
(***************************************************************************)
Part(name, id) == [name |-> name, id |-> id]

\* two parts are named "a"
StudioTwins == <<Part(PartA, "JHD"), Part(PartA, "JHH"), Part(PartAB, "JID")>>

\* no part is named "a", one is named "A", and two are named "a-b"
StudioUpper == <<Part(<<"A">>, "JHD"), Part(PartAB, "JID"), Part(PartAB, "JIH")>>

Studios == {StudioTwins, StudioUpper}

\* the version id of the URL, and the version lists the document may have
UrlVid == "v1"

VersionLists ==
    { << [id |-> "v0", name |-> <<"r", "0">>], [id |-> "v1", name |-> <<"r", "1">>] >>,
      << [id |-> "v0", name |-> <<"r", "0">>] >> }

NoConfiguration == [tag |-> "none", of |-> <<>>]

NoEncoding == [encodedId |-> NoConfiguration, queryParam |-> NoConfiguration]

\* POST configurationencodings: opaque handles of the parameters sent
EncodeResponse(os_config_parameters) ==
    [encodedId  |-> [tag |-> "encodedId",  of |-> os_config_parameters],
     queryParam |-> [tag |-> "queryParam", of |-> os_config_parameters]]

NoPartId == [id |-> "", cfg |-> NoConfiguration]

\* GET parts?{queryParam}: the part ids depend on the configuration
PartsResponse(queryParam) ==
    [i \in 1..Len(studio) |->
        [name |-> studio[i].name,
         partId |-> [id |-> studio[i].id, cfg |-> queryParam]]]

NoJob == [requestState |-> "none", resultExternalDataIds |-> <<>>]

NoData == [of |-> 0, k |-> 0]

\* the external data a finished translation of task t may list
ResultLists(t) ==
    IF svc = "flaky"
    THEN {<<>>, <<[of |-> t, k |-> 1], [of |-> t, k |-> 2]>>}
    ELSE {<<[of |-> t, k |-> 1], [of |-> t, k |-> 2]>>}

\* whether a request of a task can raise, and whether it can succeed
CanRaise == svc = "flaky"

EncodeCanRaise == svc \in {"flaky", "noencode"}

EncodeCanSucceed == svc # "noencode"

(***************************************************************************)
(* main                                                                    *)
(***************************************************************************)
Wip == <<"w", "i", "p">>

\* a lookup that takes the first version of the list, whatever its id
get_version_name_first(response) ==
    IF response.ok /\ response.list # <<>>
    THEN [found |-> TRUE, what |-> "found", name |-> response.list[1].name]
    ELSE [found |-> FALSE, name |-> <<>>,
          what |-> IF response.ok THEN "missing" ELSE "error"]

\* get_version_name, given what the version list request gave: the name of
\* the version of the URL, or None (found = FALSE) after logging the error
get_version_name(response) ==
    LET hits == IF response.ok
                THEN {i \in 1..Len(response.list) : response.list[i].id = UrlVid}
                ELSE {}
    IN  IF hits = {}
        THEN [found |-> FALSE, name |-> <<>>,
              what |-> IF response.ok THEN "missing" ELSE "error"]
        ELSE [found |-> TRUE, what |-> "found",
              name |-> response.list[CHOOSE i \in hits : \A j \in hits : i <= j].name]

\* GET versions: a version list, or an error status when the service is flaky
VersionResponses ==
    {[ok |-> TRUE, list |-> vl] : vl \in VersionLists}
    \cup (IF svc = "flaky" THEN {[ok |-> FALSE, list |-> <<>>]} ELSE {})

\* generate_file_suffix: suffix += get_version_name(ctx) raises TypeError
\* when the name is None
MainSuffix ==
    /\ mainpc = "suffix"
    /\ \/ /\ wvm # "v"
          /\ suffix' = Wip
          /\ mainpc' = "schema"
          /\ UNCHANGED <<mainErr, vlookup, mainReq, errlog>>
       \/ /\ wvm = "v"
          /\ mainReq' = [mainReq EXCEPT !.versions = @ + 1]
          /\ \E response \in VersionResponses :
                LET got == get_version_name(response)
                IN  /\ vlookup' = got.what
                    /\ IF got.found
                       THEN /\ suffix' = got.name
                            /\ mainpc' = "schema"
                            /\ UNCHANGED <<mainErr, errlog>>
                       ELSE /\ errlog' = errlog \cup
                                   {[src |-> "suffix", name |-> <<>>, t |-> 0]}
                            /\ mainpc' = "crashed"
                            /\ mainErr' = "suffix"
                            /\ UNCHANGED suffix
    /\ UNCHANGED <<rvars, envvars, schema, loop, tasks, job, files>>

\* get_element_configuration
MainSchema ==
    /\ mainpc = "schema"
    /\ mainReq' = [mainReq EXCEPT !.schema = @ + 1]
    /\ \/ /\ schema' = DocSchema
          /\ mainpc' = "preflight"
          /\ UNCHANGED mainErr
       \/ /\ svc = "flaky"
          /\ mainpc' = "crashed"
          /\ mainErr' = "schema"
          /\ UNCHANGED schema
    /\ UNCHANGED <<rvars, envvars, suffix, vlookup, loop, poolvars>>

\* the validation loop that keeps going after an invalid configuration
PreflightIgnoring(results) == [pc |-> "submit", k |-> 0]

\* a validation that looks at the first configuration only
PreflightFirstOnly(results) ==
    IF results = <<>> \/ results[1].ok THEN [pc |-> "submit", k |-> 0]
    ELSE [pc |-> IF results[1].exc = "ValueError" THEN "aborted" ELSE "crashed",
          k  |-> 1]

\* the validation loop, given what resolving each spec gives: where main
\* goes next, and the spec that stopped it
PreflightVerdict(results) ==
    LET bad == {k \in 1..Len(results) : ~results[k].ok}
    IN  IF bad = {} THEN [pc |-> "submit", k |-> 0]
        ELSE LET k == CHOOSE i \in bad : \A j \in bad : i <= j
             IN  [pc |-> IF results[k].exc = "ValueError" THEN "aborted" ELSE "crashed",
                  k  |-> k]

NoTasks == Len(formats) * Len(parts) * Len(specs) = 0

MainPreflight ==
    /\ mainpc = "preflight"
    /\ LET results == [k \in 1..Len(specs) |->
                          resolve_configuration_parameters(specs[k].config, schema)]
           v == PreflightVerdict(results)
       IN  /\ mainpc' = IF v.pc = "submit" /\ NoTasks THEN "join" ELSE v.pc
           /\ mainErr' = IF v.pc = "crashed" THEN "preflight" ELSE mainErr
           /\ errlog' = IF v.pc = "aborted"
                        THEN errlog \cup {[src |-> "preflight",
                                           name |-> specs[v.k].name, t |-> 0]}
                        ELSE errlog
    /\ UNCHANGED <<rvars, envvars, suffix, vlookup, schema, mainReq, loop,
                   tasks, job, files>>

NoRequest ==
    [configuration |-> NoConfiguration, formatName |-> <<>>, partIds |-> NoPartId]

\* a future of executor.submit(export_configuration, ctx, export, partName,
\* config_schema, formatName, suffix), and the locals of the call
NewTask(formatName, partName, export) ==
    [formatName |-> formatName, partName |-> partName, export |-> export,
     stage |-> "Queued", nap |-> FALSE, failedAt |-> "none", why |-> "none",
     raised |-> FALSE, runs |-> 0,
     resolved_params |-> <<>>, encoding |-> NoEncoding,
     partsQuery |-> NoConfiguration, PID |-> NoPartId,
     request |-> NoRequest, TID |-> 0, again |-> FALSE, status |-> "none",
     FID |-> NoData, filename |-> <<>>,
     sent |-> [encode |-> 0, parts |-> 0, create |-> 0, download |-> 0]]

\* the loops nested with the parts outermost and the formats innermost
LoopNextPartMajor(l) ==
    IF l.f < Len(formats) THEN [l EXCEPT !.f = @ + 1]
    ELSE IF l.s < Len(specs) THEN [f |-> 1, p |-> l.p, s |-> l.s + 1]
    ELSE IF l.p < Len(parts) THEN [f |-> 1, p |-> l.p + 1, s |-> 1]
    ELSE [f |-> Len(formats) + 1, p |-> 1, s |-> 1]

\* for formatName in formats: for partName in parts: for export in ...
LoopNext(l) ==
    IF l.s < Len(specs) THEN [l EXCEPT !.s = @ + 1]
    ELSE IF l.p < Len(parts) THEN [f |-> l.f, p |-> l.p + 1, s |-> 1]
    ELSE [f |-> l.f + 1, p |-> 1, s |-> 1]

MainSubmit ==
    /\ mainpc = "submit"
    /\ tasks' = Append(tasks, NewTask(formats[loop.f], parts[loop.p], specs[loop.s]))
    /\ job' = Append(job, NoJob)
    /\ loop' = LoopNext(loop)
    /\ mainpc' = IF loop'.f > Len(formats) THEN "join" ELSE "submit"
    /\ UNCHANGED <<rvars, envvars, mainErr, suffix, vlookup, schema, mainReq,
                   files, errlog>>

Terminal == {"Done", "Failed"}

Executing ==
    {"Resolving", "Encoding", "LocatingPart", "Translating", "Polling", "Downloading"}

\* a main that returns once everything is submitted
MainJoinEarly ==
    /\ mainpc = "join"
    /\ mainpc' = "returned"
    /\ UNCHANGED <<rvars, envvars, mainErr, suffix, vlookup, schema, mainReq, loop,
                   poolvars>>

\* for future in as_completed(futures): future.result(), and the exit of the
\* with block, which waits for every task
MainJoin ==
    /\ mainpc = "join"
    /\ \A t \in 1..Len(tasks) : tasks[t].stage \in Terminal
    /\ IF \E t \in 1..Len(tasks) : tasks[t].raised
       THEN mainpc' = "crashed" /\ mainErr' = "join"
       ELSE mainpc' = "returned" /\ UNCHANGED mainErr
    /\ UNCHANGED <<rvars, envvars, suffix, vlookup, schema, mainReq, loop, poolvars>>

(***************************************************************************)
(* The pool's workers and export_configuration                             *)
(***************************************************************************)
MaxWorkers == 10

\* a pool that starts a thread for every submitted call
SlotAlways == TRUE

\* ThreadPoolExecutor(max_workers=10): a call starts when a worker is idle
SlotFree ==
    Cardinality({t \in 1..Len(tasks) : tasks[t].stage \in Executing}) < MaxWorkers

\* a handler that logs and lets the exception out of export_configuration
CaughtReraising(ts, t, at, why) ==
    [tasks  |-> [ts EXCEPT ![t].stage = "Failed", ![t].failedAt = at,
                           ![t].why = why, ![t].raised = TRUE],
     errlog |-> errlog \cup {[src |-> "export", name |-> ts[t].export.name, t |-> t]}]

\* a handler that logs and puts the call back in the queue
CaughtRetrying(ts, t, at, why) ==
    [tasks  |-> [ts EXCEPT ![t].stage = "Queued", ![t].failedAt = at, ![t].why = why],
     errlog |-> errlog \cup {[src |-> "export", name |-> ts[t].export.name, t |-> t]}]

\* except Exception as e: log_error(...): task t, whose state is ts[t], has
\* raised in stage `at`
Caught(ts, t, at, why) ==
    [tasks  |-> [ts EXCEPT ![t].stage = "Failed", ![t].failedAt = at, ![t].why = why],
     errlog |-> errlog \cup {[src |-> "export", name |-> ts[t].export.name, t |-> t]}]

Fails(ts, t, at, why) ==
    LET h == Caught(ts, t, at, why)
    IN  tasks' = h.tasks /\ errlog' = h.errlog

\* a worker that starts a call at its encode request
TStartSkipping(t) ==
    /\ tasks[t].stage = "Queued"
    /\ \A u \in 1..(t - 1) : tasks[u].stage # "Queued"
    /\ SlotFree
    /\ tasks' = [tasks EXCEPT ![t].stage = "Encoding", ![t].runs = @ + 1]
    /\ UNCHANGED <<rvars, envvars, mainvars, job, files, errlog>>

\* a worker takes the next call off the work queue
TStart(t) ==
    /\ tasks[t].stage = "Queued"
    /\ \A u \in 1..(t - 1) : tasks[u].stage # "Queued"
    /\ SlotFree
    /\ tasks' = [tasks EXCEPT ![t].stage = "Resolving", ![t].runs = @ + 1]
    /\ UNCHANGED <<rvars, envvars, mainvars, job, files, errlog>>

TResolve(t) ==
    /\ tasks[t].stage = "Resolving"
    /\ LET r == resolve_configuration_parameters(tasks[t].export.config, schema)
       IN  IF r.ok
           THEN /\ tasks' = [tasks EXCEPT ![t].stage = "Encoding",
                                          ![t].resolved_params = r.params]
                /\ UNCHANGED errlog
           ELSE Fails(tasks, t, "Resolving", r.kind)
    /\ UNCHANGED <<rvars, envvars, mainvars, job, files>>

\* encode_configuration_url
TEncode(t) ==
    /\ tasks[t].stage = "Encoding"
    /\ LET ts == [tasks EXCEPT ![t].sent.encode = @ + 1]
       IN  \/ /\ EncodeCanSucceed
              /\ tasks' = [ts EXCEPT ![t].stage = "LocatingPart",
                             ![t].encoding = EncodeResponse(ts[t].resolved_params)]
              /\ UNCHANGED errlog
           \/ /\ EncodeCanRaise
              /\ Fails(ts, t, "Encoding", "ServiceError")
    /\ UNCHANGED <<rvars, envvars, mainvars, job, files>>

\* a lookup that ignores the case of the name
get_part_id_anycase(response, partToExport) ==
    LET hits == {i \in 1..Len(response) : Lower(response[i].name) = Lower(partToExport)}
    IN  IF hits = {} THEN [found |-> FALSE, partId |-> NoPartId]
        ELSE [found |-> TRUE,
              partId |-> response[CHOOSE i \in hits : \A j \in hits : i <= j].partId]

\* get_part_id, given the part list: the partId of the first part of that
\* name, or ValueError (found = FALSE)
get_part_id(response, partToExport) ==
    LET hits == {i \in 1..Len(response) : response[i].name = partToExport}
    IN  IF hits = {} THEN [found |-> FALSE, partId |-> NoPartId]
        ELSE [found |-> TRUE,
              partId |-> response[CHOOSE i \in hits : \A j \in hits : i <= j].partId]

TLocate(t) ==
    /\ tasks[t].stage = "LocatingPart"
    /\ LET queryParam == tasks[t].encoding.queryParam
           ts == [tasks EXCEPT ![t].sent.parts = @ + 1, ![t].partsQuery = queryParam]
           got == get_part_id(PartsResponse(queryParam), ts[t].partName)
       IN  \/ /\ got.found
              /\ tasks' = [ts EXCEPT ![t].stage = "Translating", ![t].PID = got.partId]
              /\ UNCHANGED errlog
           \/ /\ ~got.found
              /\ Fails(ts, t, "LocatingPart", "PartNotFound")
           \/ /\ CanRaise
              /\ Fails(ts, t, "LocatingPart", "ServiceError")
    /\ UNCHANGED <<rvars, envvars, mainvars, job, files>>

\* create_translation_request; the service names the job after the task
TTranslate(t) ==
    /\ tasks[t].stage = "Translating"
    /\ LET payload == [configuration |-> tasks[t].encoding.encodedId,
                       formatName |-> tasks[t].formatName,
                       partIds |-> tasks[t].PID]
           ts == [tasks EXCEPT ![t].sent.create = @ + 1, ![t].request = payload]
       IN  \/ /\ tasks' = [ts EXCEPT ![t].stage = "Polling", ![t].TID = t]
              /\ job' = [job EXCEPT ![t].requestState = "ACTIVE"]
              /\ UNCHANGED errlog
           \/ /\ CanRaise
              /\ Fails(ts, t, "Translating", "ServiceError")
              /\ UNCHANGED job
    /\ UNCHANGED <<rvars, envvars, mainvars, files>>

\* a loop that ends when the translation has ended, however it ended
TranslationEnded(response) == response.requestState \in {"DONE", "FAILED"}

\* a loop that never sees the end of the translation
TranslationNeverDone(response) == FALSE

\* if response["requestState"] == "DONE": break
TranslationDone(response) == response.requestState = "DONE"

\* wait_for_translation_request: time.sleep(5), at the top of the loop
TSleep(t) ==
    /\ tasks[t].stage = "Polling"
    /\ ~tasks[t].nap
    /\ tasks' = [tasks EXCEPT ![t].nap = TRUE, ![t].again = FALSE]
    /\ UNCHANGED <<rvars, envvars, mainvars, job, files, errlog>>

\* wait_for_translation_request: the status request after the sleep; the
\* loop goes round again, or returns the response as status and, out of the
\* loop, FID = status['resultExternalDataIds'][0]
TPoll(t) ==
    /\ tasks[t].stage = "Polling"
    /\ tasks[t].nap
    /\ LET response == job[tasks[t].TID]
           woken == [tasks EXCEPT ![t].nap = FALSE]
           ts == [woken EXCEPT ![t].status = response.requestState]
       IN  \/ /\ ~TranslationDone(response)
              /\ tasks' = [woken EXCEPT ![t].again = TRUE]
              /\ UNCHANGED errlog
           \/ /\ TranslationDone(response)
              /\ IF response.resultExternalDataIds = <<>>
                 THEN Fails(ts, t, "Extracting", "IndexError")
                 ELSE /\ tasks' = [ts EXCEPT ![t].stage = "Downloading",
                                     ![t].FID = response.resultExternalDataIds[1]]
                      /\ UNCHANGED errlog
           \/ /\ CanRaise
              /\ Fails(woken, t, "Polling", "ServiceError")
    /\ UNCHANGED <<rvars, envvars, mainvars, job, files>>

Filename(partName, specName, sfx, formatName) ==
    partName \o <<"-">> \o specName \o <<"-">> \o sfx \o <<".">> \o Lower(formatName)

\* open(filename, 'wb').write(content): the file is replaced
WriteFile(fs, filename, content) ==
    {f \in fs : f.name # filename} \cup {[name |-> filename, content |-> content]}

\* download_external_data
TDownload(t) ==
    /\ tasks[t].stage = "Downloading"
    /\ LET filename == Filename(tasks[t].partName, tasks[t].export.name, suffix,
                                tasks[t].formatName)
           ts == [tasks EXCEPT ![t].sent.download = @ + 1]
       IN  \/ /\ tasks' = [ts EXCEPT ![t].stage = "Done", ![t].filename = filename]
              /\ files' = WriteFile(files, filename, ts[t].FID)
              /\ UNCHANGED errlog
           \/ /\ CanRaise
              /\ Fails(ts, t, "Downloading", "ServiceError")
              /\ UNCHANGED files
    /\ UNCHANGED <<rvars, envvars, mainvars, job>>

\* the service finishes a translation
RemoteJob(t) ==
    /\ job[t].requestState = "ACTIVE"
    /\ \/ \E ids \in ResultLists(t) :
              job' = [job EXCEPT ![t] = [requestState |-> "DONE",
                                         resultExternalDataIds |-> ids]]
       \/ /\ svc = "flaky"
          /\ job' = [job EXCEPT ![t].requestState = "FAILED"]
    /\ UNCHANGED <<rvars, envvars, mainvars, tasks, files, errlog>>

TaskStep(t) ==
    \/ TStart(t)
    \/ TResolve(t)
    \/ TEncode(t)
    \/ TLocate(t)
    \/ TTranslate(t)
    \/ TSleep(t)
    \/ TPoll(t)
    \/ TDownload(t)

(***************************************************************************)
(* The resolver on its own                                                 *)
(***************************************************************************)
ApplyResolve ==
    /\ ~rdone
    /\ rdone' = TRUE
    /\ rresult' = resolve_configuration_parameters(rconfig, rschema)
    /\ UNCHANGED <<rconfig, rschema, envvars, mainvars, poolvars>>

NextResolve == ApplyResolve

(***************************************************************************)
(* Specifications                                                          *)
(***************************************************************************)
BatchSize(sc) == Len(sc.formats) * Len(sc.parts) * Len(sc.specs)

AllScenarios ==
    [formats : FormatLists, parts : PartLists, specs : SpecLists,
     wvm : {"w", "v", "m"}, studio : Studios, svc : {"healthy", "flaky"}]

\* a service that may fail any request is run against the smaller batches
Scenarios ==
    {sc \in AllScenarios :
        BatchSize(sc) <= (IF sc.svc = "flaky" THEN MaxFlakyTasks ELSE MaxTasks)}

LiveScenarios == {sc \in Scenarios : BatchSize(sc) <= MaxLiveTasks}

\* one configuration more than the pool has workers, each with a name of its own
ManySpecs ==
    [i \in 1..(MaxWorkers + 1) |->
        ExportSpec(<<LowerLetters[i]>>, <<Entry("scoop", BoolV(TRUE))>>)]

\* a batch larger than the pool, against a service that refuses to encode
PoolScenarios ==
    LiveScenarios \cup
    {[formats |-> <<STEP>>, parts |-> <<PartA>>, specs |-> ManySpecs,
      wvm |-> "w", studio |-> StudioTwins, svc |-> "noencode"]}

\* main has built ctx and is about to call generate_file_suffix
InitRun(sc) ==
    /\ formats = sc.formats
    /\ parts = sc.parts
    /\ specs = sc.specs
    /\ wvm = sc.wvm
    /\ studio = sc.studio
    /\ svc = sc.svc
    /\ mainpc = "suffix"
    /\ mainErr = "none"
    /\ suffix = <<>>
    /\ vlookup = "none"
    /\ schema = <<>>
    /\ mainReq = [versions |-> 0, schema |-> 0]
    /\ loop = [f |-> 1, p |-> 1, s |-> 1]
    /\ tasks = <<>>
    /\ job = <<>>
    /\ files = {}
    /\ errlog = {}
    /\ rconfig = <<>>
    /\ rschema = <<>>
    /\ rdone = FALSE
    /\ rresult = NotCalled

Init == \E sc \in Scenarios : InitRun(sc)

InitPool == \E sc \in PoolScenarios : InitRun(sc)

InitLive == \E sc \in LiveScenarios : InitRun(sc)

\* the runs on a workspace among them: the suffix is "wip" without a request
WorkspaceScenarios == {sc \in LiveScenarios : sc.wvm = "w"}

InitWorkspace == \E sc \in WorkspaceScenarios : InitRun(sc)

InitResolve ==
    /\ rconfig \in ConfigPool(MaxConfigLen)
    /\ rschema \in SchemaPool
    /\ rdone = FALSE
    /\ rresult = NotCalled
    /\ formats = <<>>
    /\ parts = <<>>
    /\ specs = <<>>
    /\ wvm = "w"
    /\ studio = <<>>
    /\ svc = "healthy"
    /\ mainpc = "off"
    /\ mainErr = "none"
    /\ suffix = <<>>
    /\ vlookup = "none"
    /\ schema = <<>>
    /\ mainReq = [versions |-> 0, schema |-> 0]
    /\ loop = [f |-> 1, p |-> 1, s |-> 1]
    /\ tasks = <<>>
    /\ job = <<>>
    /\ files = {}
    /\ errlog = {}

Next ==
    \/ MainSuffix
    \/ MainSchema
    \/ MainPreflight
    \/ MainSubmit
    \/ MainJoin
    \/ \E t \in 1..Len(tasks) : TaskStep(t)
    \/ \E t \in 1..Len(tasks) : RemoteJob(t)

Spec == Init /\ [][Next]_vars

SpecPool == InitPool /\ [][Next]_vars

SpecResolve == InitResolve /\ [][NextResolve]_vars

\* every thread that can take a step eventually takes one, and the service
\* eventually finishes every translation it was asked for
Fairness ==
    /\ WF_vars(MainSuffix \/ MainSchema \/ MainPreflight \/ MainSubmit \/ MainJoin)
    /\ \A t \in 1..MaxLiveTasks : WF_vars(t \in 1..Len(tasks) /\ TaskStep(t))
    /\ \A t \in 1..MaxLiveTasks : WF_vars(t \in 1..Len(tasks) /\ RemoteJob(t))

FairSpec == InitLive /\ [][Next]_vars /\ Fairness

FairWorkspaceSpec == InitWorkspace /\ [][Next]_vars /\ Fairness

(***************************************************************************)
(* Shorthands of the claims                                                *)
(***************************************************************************)
TaskIds == 1..Len(tasks)

ExecutingNow == {t \in TaskIds : tasks[t].stage \in Executing}

\* the validation loop of main ended the run
PreflightStopped ==
    mainpc = "aborted" \/ (mainpc = "crashed" /\ mainErr = "preflight")

\* the requests the tasks sent, status requests aside
TaskRequests(t) ==
    tasks[t].sent.encode + tasks[t].sent.parts + tasks[t].sent.create
    + tasks[t].sent.download

(***************************************************************************)
(* C1  Pre-flight gate                                                     *)
(***************************************************************************)
\* C1 as claimed: when the validation loop ends the run, no task was
\* submitted and the schema request is the only request the run made.
C1_Orig ==
    PreflightStopped =>
        /\ tasks = <<>>
        /\ mainReq = [versions |-> 0, schema |-> 1]

\* C1 amended: tasks exist only if every spec of configurationsToExport
\* resolved; when the validation loop ends the run, no task was submitted,
\* no translation exists, no file was written, and the run made the schema
\* request and, for a named version only, the one version list request that
\* generate_file_suffix makes before it.
C1_PreflightGate ==
    /\ tasks # <<>> =>
          \A k \in 1..Len(specs) :
              resolve_configuration_parameters(specs[k].config, schema).ok
    /\ PreflightStopped =>
          /\ \E k \in 1..Len(specs) :
                 ~resolve_configuration_parameters(specs[k].config, schema).ok
          /\ tasks = <<>>
          /\ job = <<>>
          /\ files = {}
          /\ mainReq = [versions |-> IF wvm = "v" THEN 1 ELSE 0, schema |-> 1]

\* the second of two specs is invalid, in a run on a named version
C1_Witness ==
    /\ mainpc = "aborted"
    /\ wvm = "v"
    /\ Len(specs) = 2
    /\ resolve_configuration_parameters(specs[1].config, schema).ok
    /\ [src |-> "preflight", name |-> specs[2].name, t |-> 0] \in errlog

(***************************************************************************)
(* C2  Failure isolation                                                   *)
(***************************************************************************)
IsolationInv ==
    /\ mainErr # "join"
    /\ \A t \in TaskIds :
          /\ ~tasks[t].raised
          /\ tasks[t].stage = "Failed" =>
                /\ tasks[t].failedAt \in
                      {"Resolving", "Encoding", "LocatingPart", "Translating",
                       "Polling", "Extracting", "Downloading"}
                /\ [src |-> "export", name |-> tasks[t].export.name, t |-> t]
                       \in errlog
          /\ tasks[t].stage = "Done" =>
                \E f \in files :
                    f.name = Filename(tasks[t].partName, tasks[t].export.name,
                                      suffix, tasks[t].formatName)

\* the step in which task k fails changes nothing of any other task
IsolationStep ==
    \A k \in TaskIds :
        (tasks[k].stage # "Failed" /\ tasks'[k].stage = "Failed") =>
            /\ Len(tasks') = Len(tasks)
            /\ \A t \in TaskIds \ {k} : tasks'[t] = tasks[t]
            /\ job' = job
            /\ files' = files
            /\ mainpc' = mainpc

\* task t meets no error of its own: the service is healthy and lists its part
Unhindered(t) ==
    /\ svc = "healthy"
    /\ t \in TaskIds
    /\ \E i \in 1..Len(studio) : studio[i].name = tasks[t].partName

\* C2: no exception leaves export_configuration or the pool loop; a failed
\* task failed in a stage of its own and is logged under its spec name; the
\* step that fails a task leaves every other task as it was; and, under fair
\* scheduling, every task that meets no error of its own is eventually Done
\* with its file written, whatever happens to the others.
C2_FailureIsolation ==
    /\ []IsolationInv
    /\ [][IsolationStep]_vars
    /\ \A t \in 1..MaxLiveTasks :
          Unhindered(t) ~> (Unhindered(t) /\ tasks[t].stage = "Done"
                            /\ tasks[t].filename # <<>>)

\* one task failed and another wrote its file, and main returned
C2_Witness ==
    /\ mainpc = "returned"
    /\ \E k, t \in TaskIds :
          /\ tasks[k].stage = "Failed"
          /\ tasks[t].stage = "Done"
          /\ \E f \in files : f.name = tasks[t].filename

(***************************************************************************)
(* C3  Every task ends                                                     *)
(***************************************************************************)
\* C3 as claimed: every submitted task eventually is Done or Failed.
C3_Orig ==
    \A t \in 1..MaxLiveTasks :
        (t \in TaskIds) ~> (t \in TaskIds /\ tasks[t].stage \in Terminal)

\* the translation of task t ended in a state other than DONE, and t polls it
PollsInVain(t) ==
    /\ tasks[t].stage = "Polling"
    /\ job[t].requestState = "FAILED"

\* C3 amended: under fair scheduling and a service that brings every
\* translation to a final state, a task a worker has started eventually is
\* Done or Failed unless the final state of its translation is not DONE; such
\* a task stays in Polling for as long as its status requests succeed.
C3_EndsUnlessNeverDone ==
    /\ \A t \in 1..MaxLiveTasks :
          (t \in TaskIds /\ tasks[t].stage # "Queued")
              ~> (t \in TaskIds /\ (tasks[t].stage \in Terminal \/ PollsInVain(t)))
    /\ [][\A t \in TaskIds :
              PollsInVain(t) =>
                  (PollsInVain(t)' \/ (tasks'[t].stage = "Failed"
                                       /\ tasks'[t].failedAt = "Polling"))]_vars

\* one task is Done while another polls a translation that never is DONE
C3_Witness ==
    \E t, u \in TaskIds :
        /\ tasks[t].stage = "Done"
        /\ PollsInVain(u)
        /\ tasks[u].nap

(***************************************************************************)
(* C4  Bounded concurrency                                                 *)
(***************************************************************************)
\* a task leaves the queue only into Resolving, only when fewer than
\* MaxWorkers tasks are executing, and only when no earlier task is queued
StartsWhenFree ==
    \A t \in TaskIds :
        (tasks[t].stage = "Queued" /\ tasks'[t].stage # "Queued") =>
            /\ tasks'[t].stage = "Resolving"
            /\ Cardinality(ExecutingNow) < MaxWorkers
            /\ \A u \in 1..(t - 1) : tasks[u].stage # "Queued"

\* C4: at most 10 tasks are executing at any time, whatever the size of the
\* batch; the queued tasks are the last submitted ones, and a queued task
\* starts only when fewer than 10 tasks are executing.
C4_BoundedConcurrency ==
    /\ [](Cardinality(ExecutingNow) <= MaxWorkers)
    /\ [](\A t, u \in TaskIds :
              (t < u /\ tasks[t].stage = "Queued") => tasks[u].stage = "Queued")
    /\ [][StartsWhenFree]_vars

\* ten tasks are executing, one has been waiting in the queue, and a task
\* has finished before one submitted earlier
C4_Witness ==
    /\ Len(tasks) > MaxWorkers
    /\ Cardinality(ExecutingNow) = MaxWorkers
    /\ tasks[Len(tasks)].stage = "Resolving"
    /\ \E t, u \in TaskIds :
          t < u /\ tasks[t].stage \in Executing /\ tasks[u].stage \in Terminal

(***************************************************************************)
(* C5  Batch construction                                                  *)
(***************************************************************************)
FullBatch == Len(formats) * Len(parts) * Len(specs)

\* the position of the i-th task of a format-major, then part, then spec order
FormatIndex(i) == ((i - 1) \div (Len(parts) * Len(specs))) + 1

PartIndex(i) == (((i - 1) \div Len(specs)) % Len(parts)) + 1

SpecIndex(i) == ((i - 1) % Len(specs)) + 1

\* C5: the i-th submitted task is the i-th triple of formats x parts x
\* configurationsToExport in format-major, then part, then spec order; no
\* more than |F|*|P|*|S| tasks are ever submitted, and once main waits for
\* the pool every triple has been submitted exactly once.
C5_BatchIsCrossProduct ==
    /\ Len(tasks) <= FullBatch
    /\ Len(job) = Len(tasks)
    /\ \A i \in TaskIds :
          /\ tasks[i].formatName = formats[FormatIndex(i)]
          /\ tasks[i].partName = parts[PartIndex(i)]
          /\ tasks[i].export = specs[SpecIndex(i)]
    /\ mainpc \in {"join", "returned"} =>
          /\ Len(tasks) = FullBatch
          /\ \A a \in 1..Len(formats), b \in 1..Len(parts), c \in 1..Len(specs) :
                Cardinality({i \in TaskIds :
                                /\ tasks[i].formatName = formats[a]
                                /\ tasks[i].partName = parts[b]
                                /\ tasks[i].export = specs[c]}) = 1

\* two formats, one part and two specs have been submitted
C5_Witness ==
    /\ mainpc = "join"
    /\ Len(formats) = 2
    /\ Len(specs) = 2
    /\ Len(tasks) = 4
    /\ tasks[2].formatName = formats[1]
    /\ tasks[3].formatName = formats[2]

(***************************************************************************)
(* C6  One file per task                                                   *)
(***************************************************************************)
Distinct(seq) == \A i, j \in 1..Len(seq) : seq[i] = seq[j] => i = j

DistinctNames ==
    /\ Distinct(formats)
    /\ Distinct(parts)
    /\ Distinct([k \in 1..Len(specs) |-> specs[k].name])

\* C6 as claimed: with pairwise distinct format, part and spec names no two
\* tasks write the same file name, and when every task is Done there are as
\* many files as tasks.
C6_Orig ==
    DistinctNames =>
        /\ \A t, u \in TaskIds :
              (t # u /\ tasks[t].stage = "Done" /\ tasks[u].stage = "Done")
                  => tasks[t].filename # tasks[u].filename
        /\ (\A t \in TaskIds : tasks[t].stage = "Done")
              => Cardinality(files) = Len(tasks)

(***************************************************************************)
(* C7  A version name that is not found                                    *)
(***************************************************************************)
\* C7 as claimed: when the version of the URL is not in the version list, or
\* the list cannot be fetched, the run goes on with a fallback suffix.
C7_Orig ==
    (wvm = "v" /\ vlookup \in {"missing", "error"}) => mainpc # "crashed"

(***************************************************************************)
(* C8  Part lookup                                                         *)
(***************************************************************************)
\* the parts of the studio whose name is exactly the part name of task t
Namesakes(t) == {i \in 1..Len(studio) : studio[i].name = tasks[t].partName}

FirstOf(S) == CHOOSE i \in S : \A j \in S : i <= j

\* C8: a task asks for the part list under the queryParam its own encode
\* request returned; a task whose part name no listed part has fails as
\* PartNotFound once the list arrives and never creates a translation; and a
\* translation request carries the partId, under the task's own
\* configuration, of the first listed part of exactly that name.
C8_PartLookup ==
    \A t \in TaskIds :
        /\ tasks[t].sent.parts > 0 =>
              /\ tasks[t].partsQuery = tasks[t].encoding.queryParam
              /\ tasks[t].encoding = EncodeResponse(tasks[t].resolved_params)
        /\ tasks[t].why = "PartNotFound" =>
              /\ Namesakes(t) = {}
              /\ tasks[t].stage = "Failed"
              /\ tasks[t].failedAt = "LocatingPart"
        /\ Namesakes(t) = {} =>
              /\ tasks[t].sent.create = 0
              /\ job[t] = NoJob
              /\ tasks[t].stage \in {"Queued", "Resolving", "Encoding",
                                     "LocatingPart", "Failed"}
        /\ tasks[t].sent.create > 0 =>
              /\ Namesakes(t) # {}
              /\ tasks[t].request.partIds =
                    [id |-> studio[FirstOf(Namesakes(t))].id,
                     cfg |-> tasks[t].encoding.queryParam]
              /\ tasks[t].request.configuration = tasks[t].encoding.encodedId

\* one task failed as PartNotFound and another sent a translation request
\* for the first of two parts of its name
C8_Witness ==
    \E t, u \in TaskIds :
        /\ tasks[t].why = "PartNotFound"
        /\ Cardinality(Namesakes(u)) = 2
        /\ tasks[u].sent.create = 1
        /\ tasks[u].request.partIds.id = "JID"

(***************************************************************************)
(* C9  No automatic retry                                                  *)
(***************************************************************************)
\* C9: a task is taken off the queue at most once and sends at most one
\* encode, one create-translation and one download request; no more tasks
\* are submitted than the batch has; and a Failed task stays as it is.
C9_NoRetry ==
    /\ [](/\ Len(tasks) <= FullBatch
          /\ \A t \in TaskIds :
                /\ tasks[t].runs <= 1
                /\ tasks[t].sent.encode <= 1
                /\ tasks[t].sent.create <= 1
                /\ tasks[t].sent.download <= 1)
    /\ [][\A t \in TaskIds :
              tasks[t].stage = "Failed" => tasks'[t] = tasks[t]]_vars

\* a task failed after its encode request, and main returned
C9_Witness ==
    /\ mainpc = "returned"
    /\ \E t \in TaskIds :
          /\ tasks[t].stage = "Failed"
          /\ tasks[t].sent.encode = 1
          /\ tasks[t].failedAt # "Encoding"

(***************************************************************************)
(* C10  The resolver is all-or-nothing and keeps the order                 *)
(***************************************************************************)
\* what the i-th key of rconfig resolves to on its own
KeyResult(i) == ResolveParam(rconfig[i].name, rconfig[i].value, rschema)

\* C10: a call of the resolver either raises and returns nothing, or returns
\* one entry per key of the config, in the order of the config, each with
\* the parameterId of its key's definition; it raises when any key is not in
\* the schema, and as UnknownParameter when that key is the first bad one.
C10_AllOrNothing ==
    rdone =>
        /\ rresult.ok =>
              /\ Len(rresult.params) = Len(rconfig)
              /\ \A i \in 1..Len(rconfig) :
                    /\ rconfig[i].name \in DOMAIN rschema
                    /\ rresult.params[i].parameterId =
                           rschema[rconfig[i].name].parameterId
                    /\ rresult.params[i] = KeyResult(i).param
        /\ ~rresult.ok => rresult.params = <<>>
        /\ rresult.ok <=> \A i \in 1..Len(rconfig) : KeyResult(i).ok
        /\ \A i \in 1..Len(rconfig) :
              (/\ rconfig[i].name \notin DOMAIN rschema
               /\ \A j \in 1..(i - 1) : KeyResult(j).ok)
                  => (~rresult.ok /\ rresult.kind = "UnknownParameter")

\* a config of two keys resolved, and its second entry is not its first
C10_Witness ==
    /\ rdone
    /\ rresult.ok
    /\ Len(rconfig) = 2
    /\ rresult.params[1].parameterId # rresult.params[2].parameterId

(***************************************************************************)
(* Shorthands of the claims about the resolver                             *)
(***************************************************************************)
Keys == 1..Len(rconfig)

\* the i-th key of rconfig is in rschema, with a definition of this type
IsOfType(i, typeName) ==
    /\ rconfig[i].name \in DOMAIN rschema
    /\ rschema[rconfig[i].name].typeName = typeName

IsQuantity(i) == IsOfType(i, "BTMConfigurationParameterQuantity")

IsBoolean(i) == IsOfType(i, "BTMConfigurationParameterBoolean")

IsEnum(i) == IsOfType(i, "BTMConfigurationParameterEnum")

\* the call raised the validation error of this kind
FailsAs(kind) ==
    ~rresult.ok /\ rresult.exc = "ValueError" /\ rresult.kind = kind

\* the call fails because of key i: it fails, and with this kind when no key
\* precedes key i
Rejects(i, kind) == ~rresult.ok /\ (i = 1 => FailsAs(kind))

\* key i resolves to v under parameterId id: the call succeeds when key i is
\* the whole config, and whenever it succeeds its i-th entry is this one
Accepts(i, id, v) ==
    /\ Len(rconfig) = 1 => rresult.ok
    /\ rresult.ok => rresult.params[i] = [parameterId |-> id, parameterValue |-> v]

\* the decimal digits a string starts with
RECURSIVE LeadingDigits(_)
LeadingDigits(s) ==
    IF s = <<>> \/ ~IsDigit(Head(s)) THEN <<>>
    ELSE <<Head(s)>> \o LeadingDigits(Tail(s))

\* a number, one blank, and the rest of the string
SpacedNumber(s) ==
    LET d == LeadingDigits(s)
    IN  d # <<>> /\ Len(s) > Len(d) /\ s[Len(d) + 1] = " "

\* whether a bound lets v through
AtLeast(lo, v) == ~lo.has \/ v >= lo.n

AtMost(hi, v) == ~hi.has \/ v <= hi.n

(***************************************************************************)
(* C11  The range of a quantity is inclusive                               *)
(***************************************************************************)
\* the raw value is a bare number, or a number, a blank and a supported unit
HasNumber(value) ==
    \/ value.ty = "int"
    \/ value.ty = "str" /\ HasSupportedUnit(value.s) /\ SpacedNumber(value.s)

NumberOf(value) ==
    IF value.ty = "int" THEN value.n ELSE DigitsVal(LeadingDigits(value.s), 0)

\* what a bare number resolves to: the number, and a blank and the declared
\* unit when a unit is declared
WithUnit(v, units) ==
    StrV(IntToStr(v) \o (IF units # <<>> THEN <<" ">> \o units ELSE <<>>))

C12_Orig ==
    rdone =>
        \A i \in Keys :
            (IsQuantity(i) /\ rconfig[i].value.ty \notin {"int", "str"})
                => Rejects(i, "TypeMismatch")

(***************************************************************************)
(* C13  The classification of a quantity given as a string                 *)
(***************************************************************************)
\* C13 as claimed: a quantity string without a supported suffix fails as
\* UnitMissing; with a supported suffix and no number in front of it, as
\* NumericParseError; with a supported suffix and a number in range in front
\* of it, with or without a blank between them, it resolves to itself.
C13_Orig ==
    rdone =>
        \A i \in Keys :
            (IsQuantity(i) /\ rconfig[i].value.ty = "str") =>
                LET def == rschema[rconfig[i].name]
                    value == rconfig[i].value
                    d == LeadingDigits(value.s)
                    v == DigitsVal(d, 0)
                IN  /\ ~HasSupportedUnit(value.s) => Rejects(i, "UnitMissing")
                    /\ (HasSupportedUnit(value.s) /\ d = <<>>)
                          => Rejects(i, "NumericParseError")
                    /\ (/\ HasSupportedUnit(value.s)
                        /\ d # <<>>
                        /\ AtLeast(def.minValue, v)
                        /\ AtMost(def.maxValue, v))
                          => Accepts(i, def.parameterId, value)

(***************************************************************************)
(* C14  A boolean takes booleans only                                      *)
(***************************************************************************)
\* C14: a boolean parameter resolves exactly when its raw value is a
\* boolean, to that boolean; every other raw value, 0, 1 and "true"
\* included, fails as TypeMismatch.
C14_BooleanStrict ==
    rdone =>
        \A i \in Keys :
            IsBoolean(i) =>
                IF rconfig[i].value.ty = "bool"
                THEN Accepts(i, rschema[rconfig[i].name].parameterId, rconfig[i].value)
                ELSE Rejects(i, "TypeMismatch")

\* true resolved to true next to a quantity, in a config of two keys
C14_Witness ==
    /\ rdone
    /\ Len(rconfig) = 2
    /\ IsBoolean(2)
    /\ rconfig[2].value = BoolV(TRUE)
    /\ rresult.ok
    /\ rresult.params[2].parameterValue = BoolV(TRUE)

(***************************************************************************)
(* C15  An enum takes its display names only                               *)
(***************************************************************************)
\* the options of the definition of key i whose display name is the raw value
NamedLike(i) ==
    LET def == rschema[rconfig[i].name]
    IN  {k \in 1..Len(def.options) :
            /\ rconfig[i].value.ty = "str"
            /\ def.options[k].optionName = rconfig[i].value.s}

StageOrder ==
    <<"Queued", "Resolving", "Encoding", "LocatingPart", "Translating", "Polling",
      "Downloading", "Done">>

StageIndex(st) == CHOOSE i \in 1..Len(StageOrder) : StageOrder[i] = st

\* a task that changes stage goes to the next stage or to Failed, and never
\* leaves Done or Failed
StageStep ==
    \A t \in TaskIds :
        tasks'[t].stage # tasks[t].stage =>
            /\ tasks[t].stage \notin Terminal
            /\ \/ tasks'[t].stage = "Failed"
               \/ /\ tasks'[t].stage # "Failed"
                  /\ StageIndex(tasks'[t].stage) = StageIndex(tasks[t].stage) + 1

\* what a task has in hand at each stage is what its own earlier stages gave
StageInputs ==
    \A t \in TaskIds :
        /\ tasks[t].sent.encode > 0 =>
              tasks[t].resolved_params =
                  resolve_configuration_parameters(tasks[t].export.config, schema).params
        /\ tasks[t].sent.parts > 0 =>
              /\ tasks[t].sent.encode = 1
              /\ tasks[t].encoding = EncodeResponse(tasks[t].resolved_params)
        /\ tasks[t].sent.create > 0 =>
              /\ tasks[t].sent.parts = 1
              /\ tasks[t].request.configuration = tasks[t].encoding.encodedId
              /\ tasks[t].request.partIds = tasks[t].PID
              /\ tasks[t].PID =
                    get_part_id(PartsResponse(tasks[t].encoding.queryParam),
                                tasks[t].partName).partId
              /\ tasks[t].request.formatName = tasks[t].formatName
        /\ job[t].requestState # "none" => tasks[t].sent.create = 1
        /\ (tasks[t].stage \in {"Downloading", "Done"} \/ tasks[t].sent.download > 0
            \/ tasks[t].failedAt = "Extracting") =>
              /\ tasks[t].TID = t
              /\ tasks[t].sent.create = 1
              /\ tasks[t].status = "DONE"
              /\ job[t].requestState = "DONE"
        /\ (tasks[t].stage \in {"Downloading", "Done"} \/ tasks[t].sent.download > 0) =>
              tasks[t].FID = job[t].resultExternalDataIds[1]

\* a file is written by a task that goes from Downloading to Done, under the
\* name of that task and with the data of its first external data id
WriteStep ==
    files' # files =>
        \E t \in TaskIds :
            /\ tasks[t].stage = "Downloading"
            /\ tasks'[t].stage = "Done"
            /\ [name |-> Filename(tasks[t].partName, tasks[t].export.name, suffix,
                                  tasks[t].formatName),
                content |-> job[t].resultExternalDataIds[1]] \in files'
            /\ \A f \in files' \ files : f.content = tasks[t].FID

\* C16: a task moves through Queued, Resolving, Encoding, LocatingPart,
\* Translating, Polling, Downloading, Done one stage at a time, or to Failed;
\* its translation request carries the encodedId of its own encode request
\* and the partId of its own part lookup; and it downloads and writes only
\* after the translation it created was DONE, the first id of the result
\* list.
C16_StageOrder ==
    /\ [][StageStep]_vars
    /\ []StageInputs
    /\ [][WriteStep]_vars

\* a task is Done with the first of two result ids in its file, while
\* another is still at an earlier stage
C16_Witness ==
    \E t, u \in TaskIds :
        /\ tasks[t].stage = "Done"
        /\ Len(job[t].resultExternalDataIds) = 2
        /\ [name |-> tasks[t].filename, content |-> [of |-> t, k |-> 1]] \in files
        /\ tasks[u].stage = "Translating"

(***************************************************************************)
(* C17  The poll loop                                                      *)
(***************************************************************************)
\* what a task in the poll loop can do: it enters the loop before its first
\* wait; when it has not waited it waits; when it has waited it fetches the
\* status, and then goes round again if the state is not DONE, leaves the
\* loop with that status if it is DONE, or fails if the request raised
PollStep ==
    \A t \in TaskIds :
        /\ (tasks[t].stage # "Polling" /\ tasks'[t].stage = "Polling") =>
              /\ tasks[t].stage = "Translating"
              /\ ~tasks'[t].nap
              /\ ~tasks'[t].again
        /\ (tasks[t].stage = "Polling" /\ tasks'[t] # tasks[t]) =>
              IF ~tasks[t].nap
              THEN tasks'[t] = [tasks[t] EXCEPT !.nap = TRUE, !.again = FALSE]
              ELSE \/ /\ job[t].requestState # "DONE"
                      /\ tasks'[t] = [tasks[t] EXCEPT !.nap = FALSE, !.again = TRUE]
                   \/ /\ job[t].requestState = "DONE"
                      /\ tasks'[t].status = "DONE"
                      /\ \/ tasks'[t].stage = "Downloading"
                         \/ /\ tasks'[t].stage = "Failed"
                            /\ tasks'[t].failedAt = "Extracting"
                   \/ /\ tasks'[t].stage = "Failed"
                      /\ tasks'[t].failedAt = "Polling"
                      /\ tasks'[t].status = "none"

\* C17: the loop waits before every status request, the first included; it
\* returns a status only if its requestState is DONE; on any other state,
\* FAILED included, it waits and asks again; so a task whose translation
\* ended in a state other than DONE keeps asking for as long as its
\* requests are answered, and stays in Polling.
C17_PollLoop ==
    /\ [][PollStep]_vars
    /\ [](\A t \in TaskIds : tasks[t].status \in {"none", "DONE"})
    /\ \A t \in 1..MaxLiveTasks :
          /\ (t \in TaskIds /\ PollsInVain(t) /\ ~tasks[t].again)
                ~> (t \in TaskIds /\ (tasks[t].again \/ tasks[t].stage = "Failed"))
          /\ (t \in TaskIds /\ PollsInVain(t) /\ tasks[t].again)
                ~> (t \in TaskIds /\ (tasks[t].nap \/ tasks[t].stage = "Failed"))

\* a task was told FAILED, goes round the loop again, and has not yet waited
C17_Witness ==
    \E t \in TaskIds :
        /\ tasks[t].stage = "Polling"
        /\ tasks[t].again
        /\ ~tasks[t].nap
        /\ job[t].requestState = "FAILED"

(***************************************************************************)
(* C18  The value of the suffix                                            *)
(***************************************************************************)
\* generate_file_suffix has returned
SuffixKnown == mainpc \in {"schema", "preflight", "submit", "join", "returned", "aborted"}
                  \/ (mainpc = "crashed" /\ mainErr # "suffix")

\* the display names of the listed versions whose id is the one of the URL
NamesOfUrlVersion ==
    UNION {{vl[i].name : i \in {j \in 1..Len(vl) : vl[j].id = UrlVid}} :
              vl \in VersionLists}

\* C18: the suffix is known before any task is submitted and never changes
\* afterwards; it is "wip" for a workspace and for a microversion, and the
\* display name of the version with the id of the URL for a version, found
\* with one request; and every file the run writes is named after it.
C18_SuffixValue ==
    /\ [](SuffixKnown =>
             IF wvm = "v" THEN suffix \in NamesOfUrlVersion ELSE suffix = Wip)
    /\ [](tasks # <<>> => SuffixKnown)
    /\ [](mainReq.versions = (IF wvm = "v" /\ mainpc # "suffix" THEN 1 ELSE 0))
    /\ [][SuffixKnown => suffix' = suffix]_vars
    /\ [](\A f \in files :
             \E t \in TaskIds :
                 f.name = Filename(tasks[t].partName, tasks[t].export.name, suffix,
                                   tasks[t].formatName))

\* a run on a version wrote two files, both named after the version
C18_Witness ==
    /\ wvm = "v"
    /\ suffix = <<"r", "1">>
    /\ \E f, g \in files :
          /\ f.name # g.name
          /\ EndsWith(f.name, <<"-", "r", "1", ".", "s", "t", "e", "p">>)
          /\ EndsWith(g.name, <<"-", "r", "1", ".", "s", "t", "l">>)

(***************************************************************************)
(* C19  Resolving again in the task gives what the pre-flight gave         *)
(***************************************************************************)
\* what the validation loop got for the spec of task t
PreflightResult(t) ==
    resolve_configuration_parameters(specs[SpecIndex(t)].config, schema)

\* C19: no task fails in Resolving; a task that has resolved holds exactly
\* the parameters the validation loop got for its spec; and once the schema
\* is fetched no step of main or of a task changes it or the specs.
C19_ReResolution ==
    /\ [](\A t \in TaskIds :
             /\ tasks[t].failedAt # "Resolving"
             /\ PreflightResult(t).ok
             /\ tasks[t].stage \notin {"Queued", "Resolving"} =>
                   tasks[t].resolved_params = PreflightResult(t).params)
    /\ [][mainpc \notin {"suffix", "schema"} =>
             (schema' = schema /\ specs' = specs)]_vars

\* two tasks of different specs have both resolved and are both executing
C19_Witness ==
    \E t, u \in TaskIds :
        /\ tasks[t].export # tasks[u].export
        /\ tasks[t].stage \in {"Encoding", "LocatingPart"}
        /\ tasks[u].stage \in {"Encoding", "LocatingPart"}
        /\ tasks[t].resolved_params # <<>>
        /\ tasks[t].resolved_params # tasks[u].resolved_params

(***************************************************************************)
(* C20  main returns after the last task                                   *)
(***************************************************************************)
RunOver == mainpc \in {"returned", "aborted", "crashed"}

\* main leaves the wait for the pool only when no task is queued or executing
JoinStep ==
    (mainpc = "join" /\ mainpc' # "join") =>
        \A t \in TaskIds : tasks[t].stage \in Terminal

\* C20: main has returned only if the whole batch was submitted and every
\* task is Done or Failed; while a task is queued or executing main is
\* submitting or waiting; and, under fair scheduling, the run ends unless
\* some task polls a translation that never is DONE, in which case main
\* waits for as long as that task polls.
C20_ReturnsAfterAll ==
    /\ [](mainpc = "returned" =>
             /\ Len(tasks) = FullBatch
             /\ \A t \in TaskIds : tasks[t].stage \in Terminal)
    /\ [](\A t \in TaskIds :
             tasks[t].stage \notin Terminal => mainpc \in {"submit", "join"})
    /\ [][JoinStep]_vars
    /\ <>[](RunOver \/ \E t \in TaskIds : PollsInVain(t))

\* main waits for a task that polls in vain, the other task having ended
C20_Witness ==
    /\ mainpc = "join"
    /\ Len(tasks) = 2
    /\ \E t, u \in TaskIds :
          /\ tasks[t].stage \in Terminal
          /\ PollsInVain(u)
          /\ tasks[u].again

====
